---- MODULE Spec2Model ----
(***************************************************************************)
(* BootBoots firmware release flow.                                        *)
(*                                                                         *)
(* Two scripts are modelled:                                               *)
(*   "emb"  embedded/catcam/scripts/build_and_upload.py                    *)
(*          (pre-flight check, version bump, commit, build, upload, tag)   *)
(*   "cpp"  embedded/catcam/cpp/catcam/scripts/build_and_upload.py         *)
(*          (version bump, build, upload, manifest update)                 *)
(*                                                                         *)
(* Three further tools are modelled, each a run of its own:                *)
(*   "secrets"   embedded/catcam/cpp/catcam/scripts/generate_secrets.py    *)
(*   "bbdevice"  embedded/catcam/scripts/bbdevice.py                       *)
(*   "scrub"     infra/scripts/clean-corrupt-images.py                     *)
(*                                                                         *)
(* Strings that the code parses, formats or compares are sequences of      *)
(* code points ("1.2.3" is <<49,46,50,46,51>>), so that int(), the         *)
(* f-string formatting, str.split and the string ordering used by sort     *)
(* are computed as the code computes them.                                 *)
(***************************************************************************)
EXTENDS Integers, Sequences, FiniteSets, TLC

----------------------------------------------------------------------------
(* Bounds *)

\* number of script invocations in one behaviour
MaxRuns == 2

----------------------------------------------------------------------------
(* Strings *)

\* the separator of version components, '.'
DOT == 46

Range(s) == {s[i] : i \in 1..Len(s)}

IsDigit(c) == c \in 48..57

\* Python str ordering: lexicographic by code point, a proper prefix is less
RECURSIVE StrLess(_, _)
StrLess(a, b) ==
    IF b = <<>> THEN FALSE
    ELSE IF a = <<>> THEN TRUE
    ELSE IF a[1] # b[1] THEN a[1] < b[1]
    ELSE StrLess(Tail(a), Tail(b))

\* str.split('.')
RECURSIVE split(_)
split(s) ==
    IF \A i \in 1..Len(s) : s[i] # DOT THEN <<s>>
    ELSE LET i == CHOOSE k \in 1..Len(s) :
                      s[k] = DOT /\ \A j \in 1..(k - 1) : s[j] # DOT
         IN  <<SubSeq(s, 1, i - 1)>> \o split(SubSeq(s, i + 1, Len(s)))

\* int() of a string of decimal digits (leading zeros are accepted)
RECURSIVE int(_)
int(s) ==
    IF s = <<>> THEN 0
    ELSE 10 * int(SubSeq(s, 1, Len(s) - 1)) + (s[Len(s)] - 48)

\* f"{n}" of a non-negative integer
RECURSIVE str(_)
str(n) ==
    IF n < 10 THEN <<48 + n>>
    ELSE str(n \div 10) \o <<48 + (n % 10)>>

\* the text matches \d+\.\d+\.\d+ entirely
VersionRegex(s) ==
    LET parts == split(s)
    IN  /\ Len(parts) = 3
        /\ \A i \in 1..3 : parts[i] # <<>> /\ \A j \in 1..Len(parts[i]) : IsDigit(parts[i][j])

\* "1.0.0", returned when version.h is missing or has no version line
DefaultVersion == <<49, 46, 48, 46, 48>>

----------------------------------------------------------------------------
(* version.h *)

\* A version.h file: the quoted text of its FIRMWARE_VERSION line and the
\* texts of the three VERSION_* constants.
NoFile == [exists |-> FALSE, fw |-> <<>>, major |-> <<>>, minor |-> <<>>, patch |-> <<>>]

HandWritten(fw) == [exists |-> TRUE, fw |-> fw, major |-> <<>>, minor |-> <<>>, patch |-> <<>>]

get_current_version(file) ==
    IF ~file.exists THEN DefaultVersion
    ELSE IF VersionRegex(file.fw) THEN file.fw
    ELSE DefaultVersion

\* variant: the minor and patch constants change places
update_version_file_swapped(version, major, minor, patch) ==
    [exists |-> TRUE, fw |-> version,
     major |-> str(major), minor |-> str(patch), patch |-> str(minor)]

update_version_file(version, major, minor, patch) ==
    [exists |-> TRUE, fw |-> version,
     major |-> str(major), minor |-> str(minor), patch |-> str(patch)]

\* variant: a minor bump that does not reset patch
bump_minor_keeps_patch(major, minor, patch, version_type) ==
    IF version_type = "major" THEN <<major + 1, 0, 0>>
    ELSE IF version_type = "minor" THEN <<major, minor + 1, patch>>
    ELSE <<major, minor, patch + 1>>

\* variant: a patch bump that leaves patch as it was
bump_forgets_patch(major, minor, patch, version_type) ==
    IF version_type = "major" THEN <<major + 1, 0, 0>>
    ELSE IF version_type = "minor" THEN <<major, minor + 1, 0>>
    ELSE <<major, minor, patch>>

\* the new (major, minor, patch) of a bump
bump_components(major, minor, patch, version_type) ==
    IF version_type = "major" THEN <<major + 1, 0, 0>>
    ELSE IF version_type = "minor" THEN <<major, minor + 1, 0>>
    ELSE <<major, minor, patch + 1>>

\* bump_version: the version it returns and the file it leaves
bump_version(file, version_type) ==
    LET current == get_current_version(file)
        parts   == split(current)
        new     == bump_components(int(parts[1]), int(parts[2]), int(parts[3]), version_type)
        new_version == str(new[1]) \o <<DOT>> \o str(new[2]) \o <<DOT>> \o str(new[3])
    IN  [version |-> new_version,
         file    |-> update_version_file(new_version, new[1], new[2], new[3])]

----------------------------------------------------------------------------
(* Object store and manifest *)

project_name == "BootBoots"

\* f"{project_name}/{version}/firmware.bin"
FirmwareKey(version) == <<project_name, version, "firmware.bin">>

\* f"{self.project_name}/manifest.json"
manifest_key == <<project_name, "manifest.json">>

NoManifest == [present |-> FALSE, key |-> manifest_key, versions |-> <<>>]

Stored(versions) == [present |-> TRUE, key |-> manifest_key, versions |-> versions]

\* variant: the path of the binary leaves out the version
version_info_flat(version, now) ==
    [version |-> version, timestamp |-> now, firmware_path |-> <<project_name, "firmware.bin">>]

version_info(version, now) ==
    [version |-> version, timestamp |-> now, firmware_path |-> FirmwareKey(version)]

\* [v for v in versions if v["version"] != version]
RECURSIVE without_version(_, _)
without_version(versions, version) ==
    IF versions = <<>> THEN <<>>
    ELSE IF versions[1].version = version THEN without_version(Tail(versions), version)
    ELSE <<versions[1]>> \o without_version(Tail(versions), version)

\* place x in a list sorted descending by version string, after its equals
RECURSIVE insert_desc(_, _)
insert_desc(sorted, x) ==
    IF sorted = <<>> THEN <<x>>
    ELSE IF StrLess(sorted[1].version, x.version) THEN <<x>> \o sorted
    ELSE <<sorted[1]>> \o insert_desc(Tail(sorted), x)

\* variant: the sort without reverse=True
RECURSIVE insert_asc(_, _)
insert_asc(sorted, x) ==
    IF sorted = <<>> THEN <<x>>
    ELSE IF StrLess(x.version, sorted[1].version) THEN <<x>> \o sorted
    ELSE <<sorted[1]>> \o insert_asc(Tail(sorted), x)

RECURSIVE sort_ascending(_)
sort_ascending(versions) ==
    IF versions = <<>> THEN <<>>
    ELSE insert_asc(sort_ascending(SubSeq(versions, 1, Len(versions) - 1)),
                    versions[Len(versions)])

\* versions.sort(key=lambda x: x["version"], reverse=True): stable, descending
RECURSIVE sort_versions(_)
sort_versions(versions) ==
    IF versions = <<>> THEN <<>>
    ELSE insert_desc(sort_versions(SubSeq(versions, 1, Len(versions) - 1)),
                     versions[Len(versions)])

\* variant: the append without the removal of the existing entry
merge_appends(versions, info) ==
    sort_versions(Append(versions, info))

\* the versions list create_version_manifest stores
merge_version(versions, info) ==
    sort_versions(Append(without_version(versions, info.version), info))

----------------------------------------------------------------------------
(* git *)

\* f"device/{version}"
tag_name(version) == <<"device", version>>

----------------------------------------------------------------------------
(* Operator input *)

\* str.strip() of the blanks
RECURSIVE strip(_)
strip(s) ==
    IF s = <<>> THEN s
    ELSE IF s[1] = 32 THEN strip(Tail(s))
    ELSE IF s[Len(s)] = 32 THEN strip(SubSeq(s, 1, Len(s) - 1))
    ELSE s

\* str.lower()
lower(s) == [i \in 1..Len(s) |-> IF s[i] \in 65..90 THEN s[i] + 32 ELSE s[i]]

\* the answer check_uncommitted_changes compares with 'y'
normalized(raw) == lower(strip(raw))

Yes == <<121>>

\* variant: only 'n' refuses, as if the default were yes
refuses_only_n(raw) == normalized(raw) = <<110>>

\* answer != 'y'
refuses(raw) == normalized(raw) # Yes

\* "y", " Y", "n", "", "yes"
Answers == { <<121>>, <<32, 89>>, <<110>>, <<>>, <<121, 101, 115>> }

NotAsked == [asked |-> FALSE, eof |-> FALSE, raw |-> <<>>]

----------------------------------------------------------------------------
(* Secrets: generate_secrets.py *)

PARAM_CERT_PEM == "/BootsBoots/BootBootsThing/certPem"
PARAM_PRIV_KEY == "/BootsBoots/BootBootsThing/privKey"
PARAM_WIFI_SSID == "/Nakomis/Wifi/SSID"
PARAM_WIFI_PASSWORD == "/Nakomis/Wifi/Password"

\* the parameters in the order main fetches them
Parameters == <<PARAM_WIFI_SSID, PARAM_WIFI_PASSWORD, PARAM_CERT_PEM, PARAM_PRIV_KEY>>

\* what the stores hold: "S", "P", " C ", "K " for the parameters, "E" and
\* "F" for the two endpoints, " R" in AmazonRootCA1.pem
ParameterValue(name) ==
    CASE name = PARAM_WIFI_SSID -> <<83>>
      [] name = PARAM_WIFI_PASSWORD -> <<80>>
      [] name = PARAM_CERT_PEM -> <<32, 67, 32>>
      [] name = PARAM_PRIV_KEY -> <<75, 32>>

EndpointValue(endpointType) ==
    IF endpointType = "iot:Data-ATS" THEN <<69>> ELSE <<70>>

RootCaFile == <<32, 82>>

generate_secrets_h(wifi_ssid, wifi_password, iot_endpoint, iot_credentials_endpoint, root_ca, cert_pem, priv_key) ==
    [wifi_ssid |-> wifi_ssid, wifi_password |-> wifi_password,
     iot_endpoint |-> iot_endpoint,
     iot_credentials_endpoint |-> iot_credentials_endpoint,
     root_ca |-> root_ca, cert_pem |-> cert_pem, priv_key |-> priv_key]

NoContent == generate_secrets_h(<<>>, <<>>, <<>>, <<>>, <<>>, <<>>, <<>>)

\* include/secrets.h: absent, opened for writing and not filled, or complete
NoSecrets == [exists |-> FALSE, complete |-> FALSE, content |-> NoContent]

Truncated == [exists |-> TRUE, complete |-> FALSE, content |-> NoContent]

Written(content) == [exists |-> TRUE, complete |-> TRUE, content |-> content]

\* a secrets.h left by an earlier run against other stored values
OldSecrets == Written(generate_secrets_h(<<79>>, <<79>>, <<79>>, <<79>>, <<79>>, <<79>>, <<79>>))

----------------------------------------------------------------------------
(* Device commands: bbdevice.py *)

THING_NAME == "BootBootsThing"

\* f"catcam/{THING_NAME}/commands"
COMMAND_TOPIC == <<"catcam", THING_NAME, "commands">>

\* f"catcam/{THING_NAME}/responses"
RESPONSE_TOPIC == <<"catcam", THING_NAME, "responses">>

\* seconds
DEFAULT_TIMEOUT == 5

\* "ping", "reboot", "set_setting"
Ping == <<112, 105, 110, 103>>
Reboot == <<114, 101, 98, 111, 111, 116>>
SetSetting == <<115, 101, 116, 95, 115, 101, 116, 116, 105, 110, 103>>

\* Python values: a str, or a value json.loads produced (bool, number,
\* null), kept as its JSON text
PyStr(text) == [t |-> "str", v |-> text]
PyJson(text) == [t |-> "json", v |-> text]

\* A dict is the set of its <<key, value>> items.
Keys(d) == {item[1] : item \in d}

\* variant: items already in the dict are kept (setdefault, not update)
update_keeps(d, e) == d \cup {item \in e : item[1] \notin Keys(d)}

\* dict.update
update(d, e) == {item \in d : item[1] \notin Keys(e)} \cup e

\* json.loads accepts the text: true, false, null or an integer
IsJsonText(text) ==
    \/ text \in { <<116, 114, 117, 101>>, <<102, 97, 108, 115, 101>>, <<110, 117, 108, 108>> }
    \/ text # <<>> /\ \A i \in 1..Len(text) : IsDigit(text[i])

\* main: a setting value is json.loads(value.lower()), or the value itself
\* when that is not JSON
setting_value(text) ==
    IF IsJsonText(lower(text)) THEN PyJson(lower(text)) ELSE PyStr(text)

\* json.dumps of a value: a str is quoted
dumps_value(value) ==
    IF value.t = "str" THEN <<34>> \o value.v \o <<34>> ELSE value.v

\* json.dumps of a dict, as the items of the JSON object
dumps(d) == {<<item[1], dumps_value(item[2])>> : item \in d}

\* send_command: the payload; params that are None or empty are not merged
payload(command, params) ==
    IF params # {} THEN update({<<"command", PyStr(command)>>}, params)
    ELSE {<<"command", PyStr(command)>>}

NoneResult == [none |-> TRUE, dict |-> {}]

SentResult == [none |-> FALSE, dict |-> {<<"status", "sent">>}]

\* variant: a timeout that has run out gives no result
send_result_times_out(outcome, timeout) ==
    IF outcome = "ok" /\ timeout > 0 THEN SentResult ELSE NoneResult

\* send_command: what it returns, by the outcome of the publish call; the
\* timeout is accepted and not used
send_result(outcome, timeout) ==
    IF outcome = "ok" THEN SentResult ELSE NoneResult

\* "m", and the values "True", "aB"
SettingName == <<109>>

\* the positional arguments tried after the command
ArgLists ==
    { <<>>, <<SettingName>>, <<SettingName, <<84, 114, 117, 101>>>>,
      <<SettingName, <<97, 66>>>> }

\* the command lines tried: command and arguments
CommandLines ==
    {<<Ping, <<>>>>, <<Reboot, <<>>>>} \cup {<<SetSetting, a>> : a \in ArgLists}

\* the direct calls of send_command tried: command and params
DirectCalls ==
    { <<Ping, {}>>, <<Ping, {<<"command", PyStr(Reboot)>>, <<"force", PyJson(<<49>>)>>}>> }

Timeouts == {DEFAULT_TIMEOUT, 0}

NoCommand ==
    [command |-> <<>>, params |-> {}, timeout |-> DEFAULT_TIMEOUT, via |-> "main",
     outcome |-> "none", sent |-> <<>>, result |-> NoneResult]

----------------------------------------------------------------------------
(* Training images: infra/scripts/clean-corrupt-images.py *)

PREFIX == "catcam-training/"

\* a key is <<prefix, name>>; a prefix no scan lists
OtherPrefix == "catcam-images/"

\* ".jpg", ".jpeg", ".png"
ImageExtensions == { <<46, 106, 112, 103>>, <<46, 106, 112, 101, 103>>, <<46, 112, 110, 103>> }

\* str.endswith
endswith(text, suffix) ==
    /\ Len(text) >= Len(suffix)
    /\ SubSeq(text, Len(text) - Len(suffix) + 1, Len(text)) = suffix

\* variant: the extension is compared as written
is_image_key_as_written(name) == \E ext \in ImageExtensions : endswith(name, ext)

\* key.lower().endswith((".jpg", ".jpeg", ".png"))
is_image_key(name) == \E ext \in ImageExtensions : endswith(lower(name), ext)

\* b"\xff\xd8" and b"\xff\xd9"
SOI == <<255, 216>>
EOI == <<255, 217>>

\* the PNG signature, shortened
PngSignature == <<137, 80, 78, 71>>

\* the body of a file is a run of segments: 1 is intact, 2 is damaged
Intact(body) == \A i \in 1..Len(body) : body[i] = 1

\* Pillow's Image.open and load succeed: a JPEG or PNG that is complete and
\* whose segments are all intact
decodes(data) ==
    \/ /\ Len(data) >= 4
       /\ SubSeq(data, 1, 2) = SOI
       /\ SubSeq(data, Len(data) - 1, Len(data)) = EOI
       /\ Intact(SubSeq(data, 3, Len(data) - 2))
    \/ /\ Len(data) >= 4
       /\ SubSeq(data, 1, 4) = PngSignature
       /\ Intact(SubSeq(data, 5, Len(data)))

\* variant: the end marker is left to the decoder
is_valid_jpeg_by_decode(data) ==
    IF Len(data) < 4 THEN [valid |-> FALSE, decoded |-> FALSE]
    ELSE IF SubSeq(data, 1, 2) # SOI THEN [valid |-> FALSE, decoded |-> FALSE]
    ELSE [valid |-> decodes(data), decoded |-> TRUE]

\* is_valid_jpeg: the answer, and whether the full decode was attempted
is_valid_jpeg(data) ==
    IF Len(data) < 4 THEN [valid |-> FALSE, decoded |-> FALSE]
    ELSE IF SubSeq(data, 1, 2) # SOI THEN [valid |-> FALSE, decoded |-> FALSE]
    ELSE IF SubSeq(data, Len(data) - 1, Len(data)) # EOI THEN [valid |-> FALSE, decoded |-> FALSE]
    ELSE [valid |-> decodes(data), decoded |-> TRUE]

\* variant: a corrupt object is deleted in every mode
lists_only_never(dry_run) == FALSE

\* main: in dry-run mode a corrupt object is printed, not deleted
lists_only(dry_run) == dry_run

\* the files tried: a good JPEG, one with a damaged segment, one cut short,
\* one of two bytes, and a good PNG
GoodJpeg == <<255, 216, 1, 255, 217>>
DamagedJpeg == <<255, 216, 2, 255, 217>>
CutShortJpeg == <<255, 216, 1, 1>>
TwoBytes == <<255, 216>>
GoodPng == <<137, 80, 78, 71, 1>>

\* "a.jpg", "b.JPG", "c.png", "d.txt"
KeyA == <<PREFIX, <<97, 46, 106, 112, 103>>>>
KeyB == <<PREFIX, <<98, 46, 74, 80, 71>>>>
KeyC == <<PREFIX, <<99, 46, 112, 110, 103>>>>
KeyD == <<PREFIX, <<100, 46, 116, 120, 116>>>>
KeyE == <<OtherPrefix, <<97, 46, 106, 112, 103>>>>

\* the buckets tried
InitImages ==
    {[k \in {} |-> <<>>]} \cup
    { [k \in {KeyA, KeyB, KeyC, KeyD, KeyE} |->
          IF k = KeyA THEN a ELSE IF k = KeyB THEN b ELSE IF k = KeyC THEN c
          ELSE DamagedJpeg] :
        a \in {GoodJpeg, DamagedJpeg, CutShortJpeg, TwoBytes, GoodPng},
        b \in {GoodJpeg, DamagedJpeg},
        c \in {GoodPng, GoodJpeg} }

\* list_objects_v2: the keys under the prefix, in the order of their names
RECURSIVE Listing(_)
Listing(keys) ==
    IF keys = {} THEN <<>>
    ELSE LET first == CHOOSE k \in keys : \A other \in keys \ {k} : StrLess(k[2], other[2])
         IN  <<first>> \o Listing(keys \ {first})

\* the second invocation before it is started: where it is, its version,
\* the manifest it loaded, whether its put succeeded, and what the first
\* invocation had done when it read and when it wrote
OtherIdle ==
    [pc |-> "idle", version |-> <<>>, loaded |-> <<>>, put |-> FALSE,
     main_put_at_get |-> FALSE, main_read_at_put |-> FALSE, main_put_at_put |-> FALSE]

\* the versions the second invocation may have built: "1.2.4", "2.0.0"
OtherVersions == { <<49, 46, 50, 46, 52>>, <<50, 46, 48, 46, 48>> }

\* the clock of the second invocation's machine
OtherNow == 9

NoScan ==
    [listing |-> <<>>, total |-> 0, corrupt |-> 0, deleted |-> 0,
     fetched |-> {}, listed |-> {}, removed |-> {}, checks |-> {}]

----------------------------------------------------------------------------
(* Local inference: ai/scripts/infer_local.py *)

TRAINING_OUTPUT_PREFIX == "training-output"

\* f"{TRAINING_OUTPUT_PREFIX}/{job_name}/output/model.tar.gz"
ModelKey(job_name) == <<TRAINING_OUTPUT_PREFIX, job_name, "output", "model.tar.gz">>

\* the archive layouts: a SavedModel under 1/, and an older one at the root
Versioned == {<<"1", "saved_model.pb">>, <<"class_names.json">>}
Flat == {<<"saved_model.pb">>}

\* the job names tried: "j1", "j2"
Job1 == <<106, 49>>
Job2 == <<106, 50>>
Jobs == {Job1, Job2}

\* the archives the models bucket may hold, by job name
InitModels ==
    {[j \in {} |-> Flat]} \cup
    {[j \in {Job1} |-> a] : a \in {Versioned, Flat}} \cup
    {[j \in Jobs |-> IF j = Job1 THEN a ELSE b] : a \in {Versioned, Flat}, b \in {Versioned, Flat}}

\* MODEL_CACHE_DIR/<job_name>: absent, or a directory with these files
NoDir == [exists |-> FALSE, files |-> {}]

Dir(files) == [exists |-> TRUE, files |-> files]

\* os.path.isdir(saved_model_path): the cache directory has a 1/ directory
is_cached(dir) == dir.exists /\ \E f \in dir.files : Len(f) > 1 /\ f[1] = "1"

\* find_latest_job: prefixes.sort(); prefixes[-1]
latest(prefixes) == CHOOSE j \in prefixes : \A k \in prefixes \ {j} : StrLess(k, j)

NoInfer ==
    [job |-> <<>>, called |-> FALSE, cached |-> FALSE, downloaded |-> FALSE,
     returned |-> FALSE]

----------------------------------------------------------------------------
(* State *)

VARIABLES
    script,          \* which of the scripts this behaviour runs
    pc,              \* position in main
    args,            \* parsed command line
    runs,            \* invocations started so far
    versionFile,     \* include/version.h
    s3,              \* keys of the firmware objects in the bucket
    manifest,        \* the object {project}/manifest.json
    git,             \* repository: whether there is one, commits, tags
    version,         \* main's local `version`
    tree_was_clean,  \* main's local `tree_was_clean`
    answer,          \* what the operator typed at the pre-flight prompt
    loaded,          \* create_version_manifest's local `manifest["versions"]`
    exitCode,        \* process exit code, meaningful when pc = "exited"
    log,             \* side effects and outcomes of the current invocation
    pre              \* persistent state when the current invocation started

VARIABLES
    secretsFile,     \* include/secrets.h
    fetched,         \* generate_secrets main: the values fetched so far
    published,       \* the messages the IoT data plane has accepted
    cmd,             \* bbdevice: command, params, timeout and what came of them
    images,          \* the image bucket: key -> bytes
    scan,            \* clean-corrupt-images main: listing, counters, and what it did
    other,           \* a second invocation of the cpp release script
    cache,           \* the local model cache: job name -> directory
    models,          \* the models bucket: job name -> archive
    infer            \* infer_local main: the job and what download_model did

\* the state of infer_local
inference == <<cache, models, infer>>

\* the state of the tools added last
further == <<images, scan, other, inference>>

\* the state of the other tools, which the release scripts leave alone
others == <<secretsFile, fetched, published, cmd, further>>

vars == <<script, pc, args, runs, versionFile, s3, manifest, git, version,
          tree_was_clean, answer, loaded, exitCode, log, pre, others>>

persistent == <<versionFile, s3, manifest, git>>
locals == <<version, tree_was_clean, answer, loaded>>

VersionTypes == {"major", "minor", "patch"}

\* "1.2.3", "1.9.9", "01.2.9", "1.2" (no match)
InitVersionTexts ==
    { <<49, 46, 50, 46, 51>>, <<49, 46, 57, 46, 57>>,
      <<48, 49, 46, 50, 46, 57>>, <<49, 46, 50>> }

InitFiles == {NoFile} \cup {HandWritten(t) : t \in InitVersionTexts}

\* manifests some earlier writer may have left: none, empty, one entry,
\* unsorted, and with a repeated version
InitManifests ==
    LET a == version_info(<<49, 46, 50, 46, 52>>, 0)        \* 1.2.4
        b == version_info(<<49, 46, 49, 48, 46, 48>>, 0)    \* 1.10.0
    IN  { NoManifest, Stored(<<>>), Stored(<<a>>), Stored(<<b, a>>), Stored(<<a, a>>) }

\* the events of a run that the next run's snapshot keeps
Remembered ==
    {"bump", "build_failed", "upload_not_found", "upload_client_error", "upload_error"}

Snapshot ==
    [versionFile |-> versionFile, s3 |-> s3, manifest |-> manifest, git |-> git,
     secretsFile |-> secretsFile, published |-> published, images |-> images,
     cache |-> cache,
     last |-> [cmd |-> cmd, pc |-> pc, exitCode |-> exitCode, infer |-> infer,
               events |-> Range(log) \cap Remembered]]

Init ==
    /\ script \in {"emb", "cpp", "secrets", "bbdevice", "scrub", "infer"}
    /\ pc = "idle"
    /\ args = [version_type |-> "patch", no_bump |-> FALSE, build_only |-> FALSE]
    /\ runs = 0
    /\ versionFile \in (IF script \in {"emb", "cpp"} THEN InitFiles ELSE {NoFile})
    /\ s3 = {}
    /\ manifest \in (IF script = "cpp" THEN InitManifests ELSE {NoManifest})
    /\ git \in [repo : (IF script = "emb" THEN BOOLEAN ELSE {FALSE}),
                commits : {{}}, tags : {{}}]
    /\ version = <<>>
    /\ tree_was_clean = FALSE
    /\ answer = NotAsked
    /\ loaded = <<>>
    /\ exitCode = 0
    /\ log = <<>>
    /\ secretsFile \in (IF script = "secrets" THEN {NoSecrets, OldSecrets} ELSE {NoSecrets})
    /\ fetched = <<>>
    /\ published = <<>>
    /\ cmd = NoCommand
    /\ images \in (IF script = "scrub" THEN InitImages ELSE {[k \in {} |-> <<>>]})
    /\ scan = NoScan
    /\ other = OtherIdle
    /\ cache = [j \in Jobs |-> NoDir]
    /\ models \in (IF script = "infer" THEN InitModels ELSE {[j \in {} |-> Flat]})
    /\ infer = NoInfer
    /\ pre = Snapshot

\* two invocations of the cpp release script, started together on two
\* checkouts: the first has parsed its arguments, the second has built its
\* firmware
InitRace ==
    /\ script = "cpp"
    /\ pc = "setup"
    /\ args \in [version_type : VersionTypes, no_bump : BOOLEAN, build_only : BOOLEAN]
    /\ runs = 1
    /\ versionFile \in InitFiles
    /\ s3 = {}
    /\ manifest \in InitManifests
    /\ git = [repo |-> FALSE, commits |-> {}, tags |-> {}]
    /\ version = <<>>
    /\ tree_was_clean = FALSE
    /\ answer = NotAsked
    /\ loaded = <<>>
    /\ exitCode = 0
    /\ log = <<>>
    /\ secretsFile = NoSecrets
    /\ fetched = <<>>
    /\ published = <<>>
    /\ cmd = NoCommand
    /\ images = [k \in {} |-> <<>>]
    /\ scan = NoScan
    /\ other \in {[OtherIdle EXCEPT !.pc = "upload", !.version = v] : v \in OtherVersions}
    /\ cache = [j \in Jobs |-> NoDir]
    /\ models = [j \in {} |-> Flat]
    /\ infer = NoInfer
    /\ pre = Snapshot

Exit(code) ==
    /\ pc' = "exited"
    /\ exitCode' = code

Logged(e) == e \in Range(log)

----------------------------------------------------------------------------
(* Invocation *)

\* a new invocation: parser.parse_args()
Start ==
    /\ script \in {"emb", "cpp"}
    /\ pc \in {"idle", "exited"}
    /\ runs < MaxRuns
    /\ \E vt \in VersionTypes, nb \in BOOLEAN, bo \in BOOLEAN :
          args' = [version_type |-> vt, no_bump |-> nb, build_only |-> bo]
    /\ runs' = runs + 1
    /\ pc' = "setup"
    /\ exitCode' = 0
    /\ log' = <<>>
    /\ pre' = Snapshot
    /\ version' = <<>>
    /\ tree_was_clean' = FALSE
    /\ answer' = NotAsked
    /\ loaded' = <<>>
    /\ UNCHANGED <<script, others, persistent>>

----------------------------------------------------------------------------
(* embedded/catcam/scripts/build_and_upload.py *)

\* ensure_aws_profile and the search for platformio.ini
EmbSetup ==
    /\ script = "emb"
    /\ pc = "setup"
    /\ \E profile \in BOOLEAN, root \in BOOLEAN :
          IF profile /\ root
          THEN /\ pc' = "preflight"
               /\ UNCHANGED <<exitCode, log>>
          ELSE /\ Exit(1)
               /\ log' = Append(log, "setup_failed")
    /\ UNCHANGED <<script, others, args, runs, persistent, locals, pre>>

\* check_uncommitted_changes
CheckUncommittedChanges ==
    /\ script = "emb"
    /\ pc = "preflight"
    /\ \E changes \in BOOLEAN :
          IF ~git.repo \/ ~changes
          THEN /\ tree_was_clean' = TRUE
               /\ pc' = "bump"
               /\ UNCHANGED <<answer, exitCode, log>>
          ELSE \/ /\ answer' = [asked |-> TRUE, eof |-> TRUE, raw |-> <<>>]
                  /\ Exit(1)
                  /\ log' = Append(log, "interrupted")
                  /\ UNCHANGED tree_was_clean
               \/ \E raw \in Answers :
                     /\ answer' = [asked |-> TRUE, eof |-> FALSE, raw |-> raw]
                     /\ IF refuses(raw)
                        THEN /\ Exit(0)
                             /\ log' = Append(log, "aborted")
                             /\ UNCHANGED tree_was_clean
                        ELSE /\ tree_was_clean' = FALSE
                             /\ pc' = "bump"
                             /\ UNCHANGED <<exitCode, log>>
    /\ UNCHANGED <<script, others, args, runs, persistent, version, loaded, pre>>

\* variant: --no-bump is not looked at
EmbBumpAlways ==
    /\ script = "emb"
    /\ pc = "bump"
    /\ LET r == bump_version(versionFile, args.version_type)
       IN  /\ versionFile' = r.file
           /\ version' = r.version
           /\ log' = Append(log, "bump")
           /\ pc' = IF tree_was_clean THEN "commit" ELSE "build"
    /\ UNCHANGED <<script, others, args, runs, s3, manifest, git, tree_was_clean,
                   answer, loaded, exitCode, pre>>

\* main: show the current version, bump it unless --no-bump
EmbBump ==
    /\ script = "emb"
    /\ pc = "bump"
    /\ IF ~args.no_bump
       THEN LET r == bump_version(versionFile, args.version_type)
            IN  /\ versionFile' = r.file
                /\ version' = r.version
                /\ log' = Append(log, "bump")
                /\ pc' = IF tree_was_clean THEN "commit" ELSE "build"
       ELSE /\ version' = get_current_version(versionFile)
            /\ pc' = "build"
            /\ UNCHANGED <<versionFile, log>>
    /\ UNCHANGED <<script, others, args, runs, s3, manifest, git, tree_was_clean,
                   answer, loaded, exitCode, pre>>

\* commit_version_bump; main ignores what it returns
CommitVersionBump ==
    /\ script = "emb"
    /\ pc = "commit"
    /\ IF ~git.repo
       THEN UNCHANGED <<git, log>>
       ELSE \E outcome \in {"add_failed", "commit_failed", "push_failed", "ok"} :
               CASE outcome \in {"add_failed", "commit_failed"} ->
                       /\ log' = Append(log, outcome)
                       /\ UNCHANGED git
                 [] outcome = "push_failed" ->
                       /\ git' = [git EXCEPT !.commits = @ \cup {version}]
                       /\ log' = log \o <<"commit", "push_failed">>
                 [] outcome = "ok" ->
                       /\ git' = [git EXCEPT !.commits = @ \cup {version}]
                       /\ log' = log \o <<"commit", "push">>
    /\ pc' = "build"
    /\ UNCHANGED <<script, others, args, runs, versionFile, s3, manifest, locals,
                   exitCode, pre>>

\* variant: main goes on after a failed build
EmbBuildIgnoresFailure ==
    /\ script = "emb"
    /\ pc = "build"
    /\ \E clean_ok \in BOOLEAN, build_ok \in BOOLEAN :
          /\ log' = Append(log, IF build_ok THEN "build_ok" ELSE "build_failed")
          /\ pc' = IF args.build_only THEN "report" ELSE "upload"
          /\ UNCHANGED exitCode
    /\ UNCHANGED <<script, others, args, runs, persistent, locals, pre>>

\* build_firmware and main's exit on failure; a failed clean is only a warning
EmbBuild ==
    /\ script = "emb"
    /\ pc = "build"
    /\ \E clean_ok \in BOOLEAN, build_ok \in BOOLEAN :
          IF build_ok
          THEN /\ log' = Append(log, "build_ok")
               /\ pc' = IF args.build_only THEN "report" ELSE "upload"
               /\ UNCHANGED exitCode
          ELSE /\ log' = Append(log, "build_failed")
               /\ Exit(1)
    /\ UNCHANGED <<script, others, args, runs, persistent, locals, pre>>

\* --build-only: report the firmware file; find_firmware_file raises when
\* firmware.bin is not there and nothing catches it
EmbReport ==
    /\ script = "emb"
    /\ pc = "report"
    /\ \E found \in BOOLEAN :
          IF found
          THEN /\ Exit(0)
               /\ UNCHANGED log
          ELSE /\ Exit(1)
               /\ log' = Append(log, "firmware_not_found")
    /\ UNCHANGED <<script, others, args, runs, persistent, locals, pre>>

UploadOutcomes == {"ok", "upload_not_found", "upload_client_error", "upload_error"}

\* variant: main goes on to the tag after a failed upload
EmbUploadIgnoresFailure ==
    /\ script = "emb"
    /\ pc = "upload"
    /\ \E outcome \in UploadOutcomes :
          IF outcome = "ok"
          THEN /\ s3' = s3 \cup {FirmwareKey(version)}
               /\ log' = Append(log, "upload")
          ELSE /\ log' = Append(log, outcome)
               /\ UNCHANGED s3
    /\ pc' = "tag"
    /\ UNCHANGED <<script, others, args, runs, versionFile, manifest, git, locals, exitCode, pre>>

\* upload_to_s3 and main's exit when it returns False
EmbUpload ==
    /\ script = "emb"
    /\ pc = "upload"
    /\ \E outcome \in UploadOutcomes :
          IF outcome = "ok"
          THEN /\ s3' = s3 \cup {FirmwareKey(version)}
               /\ log' = Append(log, "upload")
               /\ pc' = "tag"
               /\ UNCHANGED exitCode
          ELSE /\ log' = Append(log, outcome)
               /\ Exit(1)
               /\ UNCHANGED s3
    /\ UNCHANGED <<script, others, args, runs, versionFile, manifest, git, locals, pre>>

TagFailures == {"tag_no_repo", "tag_exists", "tag_create_failed", "tag_push_failed"}

\* variant: the tag is made and pushed whether or not it is there already
create_version_tag_forced(outcome) ==
    IF ~git.repo
    THEN /\ log' = Append(log, "tag_no_repo")
         /\ UNCHANGED git
    ELSE CASE outcome = "tag_create_failed" ->
                 /\ log' = Append(log, outcome)
                 /\ UNCHANGED git
           [] outcome = "tag_push_failed" ->
                 /\ git' = [git EXCEPT !.tags = @ \cup {tag_name(version)}]
                 /\ log' = log \o <<"tag", "tag_push_failed">>
           [] outcome = "ok" ->
                 /\ git' = [git EXCEPT !.tags = @ \cup {tag_name(version)}]
                 /\ log' = log \o <<"tag", "tag_push">>

\* the tag and log create_version_tag leaves, by the outcome of its git commands
create_version_tag(outcome) ==
    IF ~git.repo
    THEN /\ log' = Append(log, "tag_no_repo")
         /\ UNCHANGED git
    ELSE IF tag_name(version) \in git.tags
    THEN /\ log' = Append(log, "tag_exists")
         /\ UNCHANGED git
    ELSE CASE outcome = "tag_create_failed" ->
                 /\ log' = Append(log, outcome)
                 /\ UNCHANGED git
           [] outcome = "tag_push_failed" ->
                 /\ git' = [git EXCEPT !.tags = @ \cup {tag_name(version)}]
                 /\ log' = log \o <<"tag", "tag_push_failed">>
           [] outcome = "ok" ->
                 /\ git' = [git EXCEPT !.tags = @ \cup {tag_name(version)}]
                 /\ log' = log \o <<"tag", "tag_push">>

\* variant: main exits with code 1 when create_version_tag returns False
EmbTagFailureIsFatal ==
    /\ script = "emb"
    /\ pc = "tag"
    /\ \E outcome \in {"tag_create_failed", "tag_push_failed", "ok"} :
          /\ create_version_tag(outcome)
          /\ Exit(IF \E f \in TagFailures : f \in Range(log') THEN 1 ELSE 0)
    /\ UNCHANGED <<script, others, args, runs, versionFile, s3, manifest, locals, pre>>

\* main after a successful upload: create_version_tag, whose result is
\* ignored, then the closing notes
EmbTag ==
    /\ script = "emb"
    /\ pc = "tag"
    /\ \E outcome \in {"tag_create_failed", "tag_push_failed", "ok"} :
          create_version_tag(outcome)
    /\ Exit(0)
    /\ UNCHANGED <<script, others, args, runs, versionFile, s3, manifest, locals, pre>>

----------------------------------------------------------------------------
(* embedded/catcam/cpp/catcam/scripts/build_and_upload.py *)

\* the search for platformio.ini
CppSetup ==
    /\ script = "cpp"
    /\ pc = "setup"
    /\ \E root \in BOOLEAN :
          IF root
          THEN /\ pc' = "bump"
               /\ UNCHANGED <<exitCode, log>>
          ELSE /\ Exit(1)
               /\ log' = Append(log, "setup_failed")
    /\ UNCHANGED <<script, others, args, runs, persistent, locals, pre>>

\* main: bump the version unless --no-bump
CppBump ==
    /\ script = "cpp"
    /\ pc = "bump"
    /\ IF ~args.no_bump
       THEN LET r == bump_version(versionFile, args.version_type)
            IN  /\ versionFile' = r.file
                /\ version' = r.version
                /\ log' = Append(log, "bump")
       ELSE /\ version' = get_current_version(versionFile)
            /\ UNCHANGED <<versionFile, log>>
    /\ pc' = "build"
    /\ UNCHANGED <<script, others, args, runs, s3, manifest, git, tree_was_clean,
                   answer, loaded, exitCode, pre>>

\* variant: --build-only is not looked at after the build
CppBuildThenUpload ==
    /\ script = "cpp"
    /\ pc = "build"
    /\ \E clean_ok \in BOOLEAN, build_ok \in BOOLEAN :
          IF clean_ok /\ build_ok
          THEN /\ log' = Append(log, "build_ok")
               /\ pc' = "upload"
               /\ UNCHANGED exitCode
          ELSE /\ log' = Append(log, "build_failed")
               /\ Exit(1)
    /\ UNCHANGED <<script, others, args, runs, persistent, locals, pre>>

\* build_firmware (a failed clean fails the build) and main's exit on
\* failure; with --build-only main ends here
CppBuild ==
    /\ script = "cpp"
    /\ pc = "build"
    /\ \E clean_ok \in BOOLEAN, build_ok \in BOOLEAN :
          IF clean_ok /\ build_ok
          THEN /\ log' = Append(log, "build_ok")
               /\ IF args.build_only
                  THEN Exit(0)
                  ELSE pc' = "upload" /\ UNCHANGED exitCode
          ELSE /\ log' = Append(log, "build_failed")
               /\ Exit(1)
    /\ UNCHANGED <<script, others, args, runs, persistent, locals, pre>>

\* variant: main goes on to the manifest after a failed upload
CppUploadIgnoresFailure ==
    /\ script = "cpp"
    /\ pc = "upload"
    /\ \E outcome \in UploadOutcomes :
          IF outcome = "ok"
          THEN /\ s3' = s3 \cup {FirmwareKey(version)}
               /\ log' = Append(log, "upload")
          ELSE /\ log' = Append(log, outcome)
               /\ UNCHANGED s3
    /\ pc' = "manifest_get"
    /\ UNCHANGED <<script, others, args, runs, versionFile, manifest, git, locals, exitCode, pre>>

\* variant: a failed upload puts version.h back as the run found it
CppUploadRollsBack ==
    /\ script = "cpp"
    /\ pc = "upload"
    /\ \E outcome \in UploadOutcomes :
          IF outcome = "ok"
          THEN /\ s3' = s3 \cup {FirmwareKey(version)}
               /\ log' = Append(log, "upload")
               /\ pc' = "manifest_get"
               /\ UNCHANGED <<exitCode, versionFile>>
          ELSE /\ log' = Append(log, outcome)
               /\ Exit(1)
               /\ versionFile' = pre.versionFile
               /\ UNCHANGED s3
    /\ UNCHANGED <<script, others, args, runs, manifest, git, locals, pre>>

\* upload_to_s3 and main's exit when it returns False
CppUpload ==
    /\ script = "cpp"
    /\ pc = "upload"
    /\ \E outcome \in UploadOutcomes :
          IF outcome = "ok"
          THEN /\ s3' = s3 \cup {FirmwareKey(version)}
               /\ log' = Append(log, "upload")
               /\ pc' = "manifest_get"
               /\ UNCHANGED exitCode
          ELSE /\ log' = Append(log, outcome)
               /\ Exit(1)
               /\ UNCHANGED s3
    /\ UNCHANGED <<script, others, args, runs, versionFile, manifest, git, locals, pre>>

\* create_version_manifest, first half: get_object and json.loads.  A
\* ClientError (the key is absent, or any other service error) starts an
\* empty manifest; any other exception fails the update, which main ignores.
ManifestGet ==
    /\ script = "cpp"
    /\ pc = "manifest_get"
    /\ \/ /\ manifest.present
          /\ loaded' = manifest.versions
          /\ pc' = "manifest_put"
          /\ UNCHANGED <<exitCode, log>>
       \/ /\ loaded' = <<>>
          /\ pc' = "manifest_put"
          /\ log' = Append(log, "manifest_client_error")
          /\ UNCHANGED exitCode
       \/ /\ log' = Append(log, "manifest_failed")
          /\ Exit(0)
          /\ UNCHANGED loaded
    /\ UNCHANGED <<script, others, args, runs, persistent, version, tree_was_clean, answer, pre>>

\* create_version_manifest, second half: merge, sort, put_object; main
\* ignores the result and reports success.  The timestamp of the entry is
\* the number of the invocation.
ManifestPut ==
    /\ script = "cpp"
    /\ pc = "manifest_put"
    /\ \E put_ok \in BOOLEAN :
          IF put_ok
          THEN /\ manifest' = Stored(merge_version(loaded, version_info(version, runs)))
               /\ log' = Append(log, "manifest_put")
          ELSE /\ log' = Append(log, "manifest_failed")
               /\ UNCHANGED manifest
    /\ Exit(0)
    /\ UNCHANGED <<script, others, args, runs, versionFile, s3, git, locals, pre>>

----------------------------------------------------------------------------
(* embedded/catcam/cpp/catcam/scripts/generate_secrets.py *)

SecretsStart ==
    /\ script = "secrets"
    /\ pc \in {"idle", "exited"}
    /\ runs < MaxRuns
    /\ runs' = runs + 1
    /\ pc' = "setup"
    /\ exitCode' = 0
    /\ log' = <<>>
    /\ pre' = Snapshot
    /\ fetched' = <<>>
    /\ UNCHANGED <<script, args, persistent, locals, secretsFile, published, cmd, further>>

\* main: platformio.ini must be in the project root; the AWS clients are
\* made and the credentials tried with STS.  NoCredentialsError is reported;
\* any other error of the STS call is not caught and ends the process.
SecretsSetup ==
    /\ script = "secrets"
    /\ pc = "setup"
    /\ \E outcome \in {"ok", "no_project", "no_credentials", "credentials_error"} :
          IF outcome = "ok"
          THEN /\ pc' = "fetch"
               /\ UNCHANGED <<exitCode, log>>
          ELSE /\ Exit(1)
               /\ log' = Append(log, outcome)
    /\ UNCHANGED <<script, args, runs, persistent, locals, pre, others>>

\* get_ssm_parameter, called for the four parameters in turn; a failure is
\* re-raised and main exits
GetSsmParameter ==
    /\ script = "secrets"
    /\ pc = "fetch"
    /\ \E ok \in BOOLEAN :
          IF ok
          THEN /\ fetched' = Append(fetched, ParameterValue(Parameters[Len(fetched) + 1]))
               /\ pc' = IF Len(fetched) + 1 = Len(Parameters) THEN "endpoint" ELSE "fetch"
               /\ UNCHANGED <<exitCode, log>>
          ELSE /\ Exit(1)
               /\ log' = Append(log, "fetch_failed")
               /\ UNCHANGED fetched
    /\ UNCHANGED <<script, args, runs, persistent, locals, pre, secretsFile, published, cmd, further>>

\* get_iot_endpoint
GetIotEndpoint ==
    /\ script = "secrets"
    /\ pc = "endpoint"
    /\ \E ok \in BOOLEAN :
          IF ok
          THEN /\ fetched' = Append(fetched, EndpointValue("iot:Data-ATS"))
               /\ pc' = "credentials_endpoint"
               /\ UNCHANGED <<exitCode, log>>
          ELSE /\ Exit(1)
               /\ log' = Append(log, "endpoint_failed")
               /\ UNCHANGED fetched
    /\ UNCHANGED <<script, args, runs, persistent, locals, pre, secretsFile, published, cmd, further>>

\* get_iot_credentials_endpoint
GetIotCredentialsEndpoint ==
    /\ script = "secrets"
    /\ pc = "credentials_endpoint"
    /\ \E ok \in BOOLEAN :
          IF ok
          THEN /\ fetched' = Append(fetched, EndpointValue("iot:CredentialProvider"))
               /\ pc' = "root_ca"
               /\ UNCHANGED <<exitCode, log>>
          ELSE /\ Exit(1)
               /\ log' = Append(log, "endpoint_failed")
               /\ UNCHANGED fetched
    /\ UNCHANGED <<script, args, runs, persistent, locals, pre, secretsFile, published, cmd, further>>

\* variant: secrets.h is opened for writing before the root CA is read
ReadRootCaAfterOpen ==
    /\ script = "secrets"
    /\ pc = "root_ca"
    /\ \E found \in BOOLEAN :
          IF found
          THEN /\ fetched' = Append(fetched, strip(RootCaFile))
               /\ pc' = "write"
               /\ UNCHANGED <<exitCode, log>>
          ELSE /\ Exit(1)
               /\ log' = Append(log, "root_ca_missing")
               /\ UNCHANGED fetched
    /\ secretsFile' = Truncated
    /\ UNCHANGED <<script, args, runs, persistent, locals, pre, published, cmd, further>>

\* read_root_ca; main exits when the file is missing
ReadRootCa ==
    /\ script = "secrets"
    /\ pc = "root_ca"
    /\ \E found \in BOOLEAN :
          IF found
          THEN /\ fetched' = Append(fetched, strip(RootCaFile))
               /\ pc' = "write"
               /\ UNCHANGED <<exitCode, log>>
          ELSE /\ Exit(1)
               /\ log' = Append(log, "root_ca_missing")
               /\ UNCHANGED fetched
    /\ UNCHANGED <<script, args, runs, persistent, locals, pre, secretsFile, published, cmd, further>>

\* main: generate_secrets_h and the write of secrets.h.  open(..., 'w')
\* empties the file; a write that then fails is not caught.
WriteSecrets ==
    /\ script = "secrets"
    /\ pc = "write"
    /\ \E ok \in BOOLEAN :
          IF ok
          THEN /\ secretsFile' = Written(generate_secrets_h(
                                     fetched[1], fetched[2], fetched[5], fetched[6],
                                     fetched[7], strip(fetched[3]), strip(fetched[4])))
               /\ log' = Append(log, "write")
               /\ Exit(0)
          ELSE /\ secretsFile' = Truncated
               /\ log' = Append(log, "write_failed")
               /\ Exit(1)
    /\ UNCHANGED <<script, args, runs, persistent, locals, pre, fetched, published, cmd, further>>

----------------------------------------------------------------------------
(* embedded/catcam/scripts/bbdevice.py *)

\* a run of the tool: parser.parse_args()
DeviceStart ==
    /\ script = "bbdevice"
    /\ pc \in {"idle", "exited", "returned", "raised"}
    /\ runs < MaxRuns
    /\ \E line \in CommandLines, timeout \in Timeouts :
          args' = [command |-> line[1], args |-> line[2], timeout |-> timeout]
    /\ runs' = runs + 1
    /\ pc' = "profile"
    /\ exitCode' = 0
    /\ log' = <<>>
    /\ pre' = Snapshot
    /\ cmd' = NoCommand
    /\ UNCHANGED <<script, persistent, locals, secretsFile, fetched, published, further>>

\* ensure_aws_profile, then DeviceCommander(): the prompt ends the run when
\* the input ends, and so does a ClientError of describe_endpoint
DeviceProfile ==
    /\ script = "bbdevice"
    /\ pc = "profile"
    /\ \E outcome \in {"ok", "interrupted", "no_endpoint"} :
          IF outcome = "ok"
          THEN /\ pc' = "parse"
               /\ UNCHANGED <<exitCode, log>>
          ELSE /\ Exit(1)
               /\ log' = Append(log, outcome)
    /\ UNCHANGED <<script, args, runs, persistent, locals, pre, others>>

\* main: build the command and, for set_setting, its params
DeviceParse ==
    /\ script = "bbdevice"
    /\ pc = "parse"
    /\ IF args.command = SetSetting /\ Len(args.args) < 2
       THEN /\ Exit(1)
            /\ log' = Append(log, "usage")
            /\ UNCHANGED cmd
       ELSE /\ cmd' = [cmd EXCEPT
                         !.command = args.command,
                         !.params = IF args.command = SetSetting
                                    THEN {<<"setting", PyStr(args.args[1])>>,
                                          <<"value", setting_value(args.args[2])>>}
                                    ELSE {},
                         !.timeout = args.timeout]
            /\ pc' = "send"
            /\ UNCHANGED <<exitCode, log>>
    /\ UNCHANGED <<script, args, runs, persistent, locals, pre, secretsFile, fetched, published, further>>

\* another program calls DeviceCommander.send_command itself
DirectCall ==
    /\ script = "bbdevice"
    /\ pc \in {"idle", "exited", "returned", "raised"}
    /\ runs < MaxRuns
    /\ \E call \in DirectCalls, timeout \in Timeouts :
          cmd' = [NoCommand EXCEPT !.command = call[1], !.params = call[2],
                                   !.timeout = timeout, !.via = "call"]
    /\ runs' = runs + 1
    /\ pc' = "send"
    /\ exitCode' = 0
    /\ log' = <<>>
    /\ pre' = Snapshot
    /\ UNCHANGED <<script, args, persistent, locals, secretsFile, fetched, published, further>>

\* variant: a publish that raised a ClientError is tried once more
SendCommandRetries ==
    /\ script = "bbdevice"
    /\ pc = "send"
    /\ \E outcome \in {"ok", "client_error", "error"} :
          LET message == [topic |-> COMMAND_TOPIC,
                          payload |-> dumps(payload(cmd.command, cmd.params))]
          IN  /\ cmd' = [cmd EXCEPT
                           !.outcome = outcome,
                           !.sent = IF outcome = "ok" THEN <<message>> ELSE <<>>,
                           !.result = send_result(outcome, cmd.timeout)]
              /\ published' = IF outcome = "ok" THEN Append(published, message)
                              ELSE published
              /\ log' = Append(log, IF outcome = "ok" THEN "publish" ELSE "publish_failed")
              /\ IF outcome = "error"
                 THEN IF cmd.via = "main" THEN Exit(1)
                      ELSE pc' = "raised" /\ UNCHANGED exitCode
                 ELSE IF outcome = "client_error" /\ ~Logged("publish_failed")
                 THEN UNCHANGED <<pc, exitCode>>
                 ELSE /\ pc' = IF cmd.via = "main" THEN "report" ELSE "returned"
                      /\ UNCHANGED exitCode
    /\ UNCHANGED <<script, args, runs, persistent, locals, pre, secretsFile, fetched, further>>

\* send_command: publish once; a ClientError is reported and None returned,
\* any other exception leaves send_command and, under main, ends the process
SendCommand ==
    /\ script = "bbdevice"
    /\ pc = "send"
    /\ \E outcome \in {"ok", "client_error", "error"} :
          LET message == [topic |-> COMMAND_TOPIC,
                          payload |-> dumps(payload(cmd.command, cmd.params))]
          IN  /\ cmd' = [cmd EXCEPT
                           !.outcome = outcome,
                           !.sent = IF outcome = "ok" THEN <<message>> ELSE <<>>,
                           !.result = send_result(outcome, cmd.timeout)]
              /\ published' = IF outcome = "ok" THEN Append(published, message)
                              ELSE published
              /\ log' = Append(log, IF outcome = "ok" THEN "publish" ELSE "publish_failed")
              /\ IF outcome = "error"
                 THEN IF cmd.via = "main" THEN Exit(1)
                      ELSE pc' = "raised" /\ UNCHANGED exitCode
                 ELSE /\ pc' = IF cmd.via = "main" THEN "report" ELSE "returned"
                      /\ UNCHANGED exitCode
    /\ UNCHANGED <<script, args, runs, persistent, locals, pre, secretsFile, fetched, further>>

\* variant: main exits with code 0 whatever send_command returned
DeviceReportAlwaysZero ==
    /\ script = "bbdevice"
    /\ pc = "report"
    /\ Exit(0)
    /\ UNCHANGED <<script, args, runs, persistent, locals, pre, others, log>>

\* main: print the result, or exit with code 1 when there is none
DeviceReport ==
    /\ script = "bbdevice"
    /\ pc = "report"
    /\ IF ~cmd.result.none /\ cmd.result.dict # {} THEN Exit(0) ELSE Exit(1)
    /\ UNCHANGED <<script, args, runs, persistent, locals, pre, others, log>>

----------------------------------------------------------------------------
(* infra/scripts/clean-corrupt-images.py *)

\* a run of the scrubber: parser.parse_args()
ScrubStart ==
    /\ script = "scrub"
    /\ pc \in {"idle", "exited"}
    /\ runs < MaxRuns
    /\ \E dry_run \in BOOLEAN : args' = [dry_run |-> dry_run]
    /\ runs' = runs + 1
    /\ pc' = "list"
    /\ exitCode' = 0
    /\ log' = <<>>
    /\ pre' = Snapshot
    /\ scan' = NoScan
    /\ UNCHANGED <<script, persistent, locals, secretsFile, fetched, published, cmd, images, other, inference>>

\* paginator.paginate(Bucket=BUCKET, Prefix=PREFIX); an error of the
\* listing is not caught
ScrubList ==
    /\ script = "scrub"
    /\ pc = "list"
    /\ \E ok \in BOOLEAN :
          IF ok
          THEN /\ scan' = [scan EXCEPT !.listing = Listing({k \in DOMAIN images : k[1] = PREFIX})]
               /\ pc' = "scan"
               /\ UNCHANGED <<exitCode, log>>
          ELSE /\ Exit(1)
               /\ log' = Append(log, "list_failed")
               /\ UNCHANGED scan
    /\ UNCHANGED <<script, args, runs, persistent, locals, pre, secretsFile, fetched, published, cmd, images, other, inference>>

\* the body of the loop for the next listed key; an error of get_object or
\* delete_object is not caught
ScrubObject ==
    /\ script = "scrub"
    /\ pc = "scan"
    /\ scan.listing # <<>>
    /\ LET key == Head(scan.listing)
           rest == [scan EXCEPT !.listing = Tail(scan.listing)]
       IN  IF ~is_image_key(key[2])
           THEN /\ scan' = rest
                /\ UNCHANGED <<pc, exitCode, log, images>>
           ELSE \E got \in BOOLEAN, gone \in BOOLEAN :
                  IF ~got
                  THEN /\ scan' = [rest EXCEPT !.total = @ + 1]
                       /\ Exit(1)
                       /\ log' = Append(log, "get_failed")
                       /\ UNCHANGED images
                  ELSE LET check == is_valid_jpeg(images[key])
                           seen == [rest EXCEPT
                                      !.total = @ + 1,
                                      !.fetched = @ \cup {key},
                                      !.checks = @ \cup {[data |-> images[key],
                                                          valid |-> check.valid,
                                                          decoded |-> check.decoded]}]
                       IN  IF check.valid
                           THEN /\ gone
                                /\ scan' = seen
                                /\ UNCHANGED <<pc, exitCode, log, images>>
                           ELSE IF lists_only(args.dry_run)
                           THEN /\ gone
                                /\ scan' = [seen EXCEPT !.corrupt = @ + 1,
                                                        !.listed = @ \cup {key}]
                                /\ log' = Append(log, "corrupt")
                                /\ UNCHANGED <<pc, exitCode, images>>
                           ELSE IF gone
                           THEN /\ scan' = [seen EXCEPT !.corrupt = @ + 1,
                                                        !.deleted = @ + 1,
                                                        !.removed = @ \cup {key}]
                                /\ images' = [k \in DOMAIN images \ {key} |-> images[k]]
                                /\ log' = Append(log, "delete")
                                /\ UNCHANGED <<pc, exitCode>>
                           ELSE /\ scan' = [seen EXCEPT !.corrupt = @ + 1]
                                /\ Exit(1)
                                /\ log' = Append(log, "delete_failed")
                                /\ UNCHANGED images
    /\ UNCHANGED <<script, args, runs, persistent, locals, pre, secretsFile, fetched, published, cmd, other, inference>>

\* the summary after the loop
ScrubDone ==
    /\ script = "scrub"
    /\ pc = "scan"
    /\ scan.listing = <<>>
    /\ Exit(0)
    /\ log' = Append(log, "report")
    /\ UNCHANGED <<script, args, runs, persistent, locals, pre, others>>

----------------------------------------------------------------------------
(* A second invocation of cpp/catcam/scripts/build_and_upload.py *)

\* what the second invocation leaves alone
mine ==
    <<script, pc, args, runs, versionFile, git, locals, exitCode, log, pre,
      secretsFile, fetched, published, cmd, images, scan, inference>>

\* upload_to_s3 and main's exit when it returns False
OtherUpload ==
    /\ other.pc = "upload"
    /\ \E outcome \in UploadOutcomes :
          IF outcome = "ok"
          THEN /\ s3' = s3 \cup {FirmwareKey(other.version)}
               /\ other' = [other EXCEPT !.pc = "manifest_get"]
          ELSE /\ other' = [other EXCEPT !.pc = "exited"]
               /\ UNCHANGED s3
    /\ UNCHANGED <<mine, manifest>>

\* create_version_manifest, first half
OtherManifestGet ==
    /\ other.pc = "manifest_get"
    /\ \/ /\ manifest.present
          /\ other' = [other EXCEPT !.pc = "manifest_put",
                                    !.loaded = manifest.versions,
                                    !.main_put_at_get = Logged("manifest_put")]
       \/ other' = [other EXCEPT !.pc = "manifest_put",
                                 !.loaded = <<>>,
                                 !.main_put_at_get = Logged("manifest_put")]
       \/ other' = [other EXCEPT !.pc = "exited"]
    /\ UNCHANGED <<mine, s3, manifest>>

\* variant: the manifest is read again at the moment of the write
OtherManifestPutRereads ==
    /\ other.pc = "manifest_put"
    /\ \E put_ok \in BOOLEAN :
          IF put_ok
          THEN /\ manifest' = Stored(merge_version(manifest.versions,
                                                   version_info(other.version, OtherNow)))
               /\ other' = [other EXCEPT
                              !.pc = "exited",
                              !.put = TRUE,
                              !.main_read_at_put = pc = "manifest_put" \/ Logged("manifest_put"),
                              !.main_put_at_put = Logged("manifest_put")]
          ELSE /\ other' = [other EXCEPT !.pc = "exited"]
               /\ UNCHANGED manifest
    /\ UNCHANGED <<mine, s3>>

\* create_version_manifest, second half: what was loaded, with the new
\* entry, replaces whatever is stored
OtherManifestPut ==
    /\ other.pc = "manifest_put"
    /\ \E put_ok \in BOOLEAN :
          IF put_ok
          THEN /\ manifest' = Stored(merge_version(other.loaded,
                                                   version_info(other.version, OtherNow)))
               /\ other' = [other EXCEPT
                              !.pc = "exited",
                              !.put = TRUE,
                              !.main_read_at_put = pc = "manifest_put" \/ Logged("manifest_put"),
                              !.main_put_at_put = Logged("manifest_put")]
          ELSE /\ other' = [other EXCEPT !.pc = "exited"]
               /\ UNCHANGED manifest
    /\ UNCHANGED <<mine, s3>>

----------------------------------------------------------------------------
(* ai/scripts/infer_local.py *)

\* what infer_local leaves alone
elsewhere ==
    <<script, runs, persistent, locals, secretsFile, fetched, published, cmd,
      images, scan, other, models>>

\* a run of the tool: parser.parse_args(); no --job is the empty name
InferStart ==
    /\ script = "infer"
    /\ pc \in {"idle", "exited"}
    /\ runs < MaxRuns
    /\ \E job \in Jobs \cup {<<>>}, refresh \in BOOLEAN :
          args' = [job |-> job, refresh |-> refresh]
    /\ runs' = runs + 1
    /\ pc' = "resolve"
    /\ exitCode' = 0
    /\ log' = <<>>
    /\ pre' = Snapshot
    /\ infer' = NoInfer
    /\ UNCHANGED <<script, persistent, locals, secretsFile, fetched, published, cmd,
                   images, scan, other, models, cache>>

\* main: the imports, then the job given or find_latest_job, which raises
\* when the bucket has no training job
InferResolve ==
    /\ script = "infer"
    /\ pc = "resolve"
    /\ \E imports \in BOOLEAN :
          IF ~imports
          THEN /\ Exit(1)
               /\ log' = Append(log, "import_failed")
               /\ UNCHANGED infer
          ELSE IF args.job # <<>>
          THEN /\ infer' = [infer EXCEPT !.job = args.job]
               /\ pc' = "refresh"
               /\ UNCHANGED <<exitCode, log>>
          ELSE IF DOMAIN models = {}
          THEN /\ Exit(1)
               /\ log' = Append(log, "no_jobs")
               /\ UNCHANGED infer
          ELSE /\ infer' = [infer EXCEPT !.job = latest(DOMAIN models)]
               /\ pc' = "refresh"
               /\ UNCHANGED <<exitCode, log>>
    /\ UNCHANGED <<elsewhere, args, pre, cache>>

\* main: with --refresh the cached directory of the job is removed
InferRefresh ==
    /\ script = "infer"
    /\ pc = "refresh"
    /\ IF args.refresh /\ cache[infer.job].exists
       THEN /\ cache' = [cache EXCEPT ![infer.job] = NoDir]
            /\ log' = Append(log, "rmtree")
       ELSE UNCHANGED <<cache, log>>
    /\ pc' = "download"
    /\ UNCHANGED <<elsewhere, args, pre, infer, exitCode>>

\* download_model: the cached copy when there is one; otherwise makedirs,
\* download_file, extractall and the removal of the archive.  An error of
\* the download or of the extraction is not caught.
DownloadModel ==
    /\ script = "infer"
    /\ pc = "download"
    /\ IF is_cached(cache[infer.job])
       THEN /\ infer' = [infer EXCEPT !.called = TRUE, !.cached = TRUE, !.returned = TRUE]
            /\ log' = Append(log, "cached")
            /\ pc' = "inference"
            /\ UNCHANGED <<cache, exitCode>>
       ELSE \E outcome \in {"ok", "download_failed", "extract_failed"} :
               IF outcome = "download_failed" \/ infer.job \notin DOMAIN models
               THEN /\ cache' = [cache EXCEPT ![infer.job] = Dir(@.files)]
                    /\ infer' = [infer EXCEPT !.called = TRUE]
                    /\ log' = Append(log, "download_failed")
                    /\ Exit(1)
               ELSE IF outcome = "extract_failed"
               THEN /\ cache' = [cache EXCEPT ![infer.job] = Dir(@.files \cup {<<"model.tar.gz">>})]
                    /\ infer' = [infer EXCEPT !.called = TRUE, !.downloaded = TRUE]
                    /\ log' = log \o <<"download", "extract_failed">>
                    /\ Exit(1)
               ELSE /\ cache' = [cache EXCEPT ![infer.job] =
                                    Dir((@.files \cup models[infer.job]) \ {<<"model.tar.gz">>})]
                    /\ infer' = [infer EXCEPT !.called = TRUE, !.downloaded = TRUE,
                                              !.returned = TRUE]
                    /\ log' = Append(log, "download")
                    /\ pc' = "inference"
                    /\ UNCHANGED exitCode
    /\ UNCHANGED <<elsewhere, args, pre>>

\* run_inference: an error of the model load or of an image is not caught
RunInference ==
    /\ script = "infer"
    /\ pc = "inference"
    /\ \E ok \in BOOLEAN :
          IF ok
          THEN /\ Exit(0)
               /\ log' = Append(log, "inference")
          ELSE /\ Exit(1)
               /\ log' = Append(log, "inference_failed")
    /\ UNCHANGED <<elsewhere, args, pre, cache, infer>>

----------------------------------------------------------------------------

Next ==
    \/ Start
    \/ EmbSetup
    \/ CheckUncommittedChanges
    \/ EmbBump
    \/ CommitVersionBump
    \/ EmbBuild
    \/ EmbReport
    \/ EmbUpload
    \/ EmbTag
    \/ CppSetup
    \/ CppBump
    \/ CppBuild
    \/ CppUpload
    \/ ManifestGet
    \/ ManifestPut
    \/ SecretsStart
    \/ SecretsSetup
    \/ GetSsmParameter
    \/ GetIotEndpoint
    \/ GetIotCredentialsEndpoint
    \/ ReadRootCa
    \/ WriteSecrets
    \/ DeviceStart
    \/ DeviceProfile
    \/ DeviceParse
    \/ DirectCall
    \/ SendCommand
    \/ DeviceReport
    \/ ScrubStart
    \/ ScrubList
    \/ ScrubObject
    \/ ScrubDone
    \/ InferStart
    \/ InferResolve
    \/ InferRefresh
    \/ DownloadModel
    \/ RunInference

Spec == Init /\ [][Next]_vars

NextRace ==
    \/ CppSetup
    \/ CppBump
    \/ CppBuild
    \/ CppUpload
    \/ ManifestGet
    \/ ManifestPut
    \/ OtherUpload
    \/ OtherManifestGet
    \/ OtherManifestPut

SpecRace == InitRace /\ [][NextRace]_vars

----------------------------------------------------------------------------
(* Properties *)

Exited(code) == pc = "exited" /\ exitCode = code

\* the (major, minor, patch) a version text denotes
Components(text) == LET parts == split(text) IN <<int(parts[1]), int(parts[2]), int(parts[3])>>

HoldsVersion(file) == file.exists /\ VersionRegex(file.fw)

\* the current version of a version.h: the one it holds, else 1.0.0
Held(file) == IF HoldsVersion(file) THEN file.fw ELSE <<49, 46, 48, 46, 48>>

Bumped(t, version_type) ==
    CASE version_type = "patch" -> <<t[1], t[2], t[3] + 1>>
      [] version_type = "minor" -> <<t[1], t[2] + 1, 0>>
      [] version_type = "major" -> <<t[1] + 1, 0, 0>>

\* C1: a bump of the current version M.m.p of version.h returns and persists
\* M.m.(p+1) for patch, M.(m+1).0 for minor and (M+1).0.0 for major; from
\* 1.2.3 these are the texts 1.2.4, 1.3.0 and 2.0.0.
C1_BumpVersion ==
    Logged("bump") =>
        /\ VersionRegex(version)
        /\ Components(version) = Bumped(Components(Held(pre.versionFile)), args.version_type)
        /\ versionFile.exists /\ versionFile.fw = version
        /\ pre.versionFile.fw = <<49, 46, 50, 46, 51>> =>
              version = (CASE args.version_type = "patch" -> <<49, 46, 50, 46, 52>>
                           [] args.version_type = "minor" -> <<49, 46, 51, 46, 48>>
                           [] args.version_type = "major" -> <<50, 46, 48, 46, 48>>)

C1_Witness ==
    /\ Logged("bump")
    /\ pre.versionFile.fw = <<49, 46, 50, 46, 51>>
    /\ args.version_type = "minor"
    /\ versionFile.fw = <<49, 46, 51, 46, 48>>

UploadFailures == UploadOutcomes \ {"ok"}

\* C2: once the build has failed the run has exited with code 1, and it has
\* uploaded nothing, written no manifest and created no tag.
C2_FailedBuildAborts ==
    Logged("build_failed") =>
        /\ Exited(1)
        /\ \A e \in Range(log) : e \notin {"upload", "manifest_put", "tag", "tag_push"}
        /\ s3 = pre.s3
        /\ manifest = pre.manifest
        /\ git.tags = pre.git.tags

C2_Witness ==
    /\ script = "emb"
    /\ Logged("bump")
    /\ Logged("build_failed")
    /\ Exited(1)

\* C3: once upload_to_s3 has returned False the run has exited with code 1,
\* and no manifest update and no tag creation has been performed.
C3_FailedUploadAborts ==
    (\E f \in UploadFailures : Logged(f)) =>
        /\ Exited(1)
        /\ \A e \in Range(log) :
              e \notin {"manifest_put", "manifest_failed", "manifest_client_error"} \cup
                       {"tag", "tag_push"} \cup TagFailures
        /\ manifest = pre.manifest
        /\ git.tags = pre.git.tags
        /\ s3 = pre.s3

C3_Witness ==
    /\ script = "cpp"
    /\ Logged("upload_client_error")
    /\ Exited(1)

Occurrences(versions, v) == Cardinality({i \in 1..Len(versions) : versions[i].version = v})

NoDuplicates(versions) ==
    \A i, j \in 1..Len(versions) : versions[i].version = versions[j].version => i = j

\* C4: after a successful create_version_manifest(v) the stored manifest has
\* exactly one entry of version v, whatever was stored before; and when the
\* behaviour starts with no manifest, no stored manifest ever holds two
\* entries of one version.
C4_MergeReplaces ==
    /\ [](Logged("manifest_put") => Occurrences(manifest.versions, version) = 1)
    /\ (manifest = NoManifest => [](NoDuplicates(manifest.versions)))

C4_Witness ==
    /\ Logged("manifest_put")
    /\ Occurrences(pre.manifest.versions, version) = 2
    /\ Occurrences(manifest.versions, version) = 1

SortedDescending(versions) ==
    \A i, j \in 1..Len(versions) : i < j => ~StrLess(versions[i].version, versions[j].version)

\* C5: after a successful create_version_manifest the stored versions list
\* is in descending order of the version strings.
C5_ManifestSortedDescending ==
    Logged("manifest_put") => SortedDescending(manifest.versions)

C5_Witness ==
    /\ Logged("manifest_put")
    /\ ~SortedDescending(pre.manifest.versions)
    /\ Len(manifest.versions) = 3

\* numeric order on (major, minor, patch), major first
ComponentsLess(a, b) ==
    \/ a[1] < b[1]
    \/ a[1] = b[1] /\ a[2] < b[2]
    \/ a[1] = b[1] /\ a[2] = b[2] /\ a[3] < b[3]

\* C6: an invocation that bumps leaves version.h holding a version strictly
\* greater, in numeric (major, minor, patch) order, than its current version
\* before, and an invocation that does not bump leaves version.h as it was.
C6_VersionIncreases ==
    /\ Logged("bump") =>
          /\ HoldsVersion(versionFile)
          /\ ComponentsLess(Components(Held(pre.versionFile)), Components(versionFile.fw))
    /\ ~Logged("bump") => versionFile = pre.versionFile

C6_Witness ==
    /\ runs = 2
    /\ Logged("bump")
    /\ args.version_type = "patch"
    /\ pre.versionFile.fw = <<49, 46, 57, 46, 49, 48>>
    /\ versionFile.fw = <<49, 46, 57, 46, 49, 49>>

CppFailures == {"setup_failed", "build_failed", "manifest_failed"} \cup UploadFailures

\* C7: the release flow with manifest exits with code 1 on any detected
\* failure, a failed manifest update included, and with code 0 only when
\* every executed step succeeded.
C7_ExitCodeReflectsFailure ==
    (script = "cpp" /\ pc = "exited") =>
        (exitCode = 1 <=> \E f \in CppFailures : Logged(f))

Work == {"bump", "commit", "push", "push_failed", "add_failed", "commit_failed",
         "build_ok", "build_failed", "upload", "tag", "tag_push"}
            \cup UploadFailures \cup TagFailures

\* C8: when the pre-flight check asked the operator and the answer, trimmed
\* and lower-cased as the check reads it, is not 'y' (or the input ended),
\* the run has ended with no bump, commit, build, upload or tag.
C8_PreflightRefusal ==
    (answer.asked /\ (answer.eof \/ normalized(answer.raw) # <<121>>)) =>
        /\ pc = "exited"
        /\ \A e \in Range(log) : e \notin Work
        /\ <<versionFile, s3, manifest, git>> =
              <<pre.versionFile, pre.s3, pre.manifest, pre.git>>

C8_Witness ==
    /\ answer.asked
    /\ answer.raw = <<>>
    /\ ~answer.eof
    /\ Exited(0)

Position(e) == CHOOSE i \in 1..Len(log) : log[i] = e

\* C9 as stated: the version-bump commit and the tag are both made only
\* after a successful upload.
C9_CommitAndTagAfterUpload ==
    (script = "emb" /\ (Logged("commit") \/ Logged("tag"))) => Logged("upload")

\* C9 amended: only the tag is made after a successful upload; the commit is
\* made right after the bump, before the build.  A run whose build or upload
\* failed has made no tag.
C9_TagAfterUpload ==
    script = "emb" =>
        /\ Logged("tag") => (Logged("upload") /\ Position("upload") < Position("tag"))
        /\ Logged("commit") =>
              /\ Logged("bump") /\ tree_was_clean
              /\ \A e \in {"build_ok", "build_failed"} :
                    Logged(e) => Position("commit") < Position(e)
        /\ (Logged("build_failed") \/ \E f \in UploadFailures : Logged(f)) =>
              /\ ~Logged("tag")
              /\ git.tags = pre.git.tags

C9_Witness ==
    /\ script = "emb"
    /\ Logged("commit")
    /\ Logged("push")
    /\ Logged("upload_error")
    /\ Exited(1)

\* C10: after a successful upload a failure of create_version_tag leaves the
\* upload in place and the run exits with code 0.
C10_TagFailureNotFatal ==
    (\E f \in TagFailures : Logged(f)) =>
        /\ Exited(0)
        /\ Logged("upload")
        /\ FirmwareKey(version) \in s3

C10_Witness ==
    /\ Logged("tag_exists")
    /\ Exited(0)

SecretsFailures ==
    {"no_project", "no_credentials", "credentials_error", "fetch_failed",
     "endpoint_failed", "root_ca_missing"}

\* C11: secrets.h is written only after the four parameters, the two
\* endpoints and the root CA have been obtained; when the credentials are
\* absent, a fetch fails or the root CA file is missing, the process has
\* exited non-zero and secrets.h is what it was before the run.
C11_SecretsWrittenLast ==
    script = "secrets" =>
        /\ secretsFile # pre.secretsFile =>
              /\ Len(fetched) = 7
              /\ ~\E f \in SecretsFailures : Logged(f)
        /\ (\E f \in SecretsFailures : Logged(f)) =>
              /\ pc = "exited" /\ exitCode # 0
              /\ secretsFile = pre.secretsFile

C11_Witness ==
    /\ script = "secrets"
    /\ Logged("root_ca_missing")
    /\ Len(fetched) = 6
    /\ Exited(1)
    /\ secretsFile = OldSecrets

\* the publish call has been made and the run is over
DeviceDone == script = "bbdevice" /\ cmd.outcome # "none" /\ pc \in {"exited", "returned", "raised"}

\* C12 as stated: whatever the outcome of the publish call, send_command
\* returns {"status": "sent"} and main exits with code 0.
C12_AlwaysSent ==
    DeviceDone =>
        /\ cmd.result = [none |-> FALSE, dict |-> {<<"status", "sent">>}]
        /\ cmd.via = "main" => Exited(0)

\* C12 amended: when the publish call succeeds send_command returns
\* {"status": "sent"} and main exits with code 0; when it raises a
\* ClientError send_command returns None and main exits with code 1.
C12_SentWhenPublished ==
    DeviceDone =>
        /\ cmd.outcome = "ok" =>
              /\ cmd.result = [none |-> FALSE, dict |-> {<<"status", "sent">>}]
              /\ cmd.via = "main" => Exited(0)
        /\ cmd.outcome = "client_error" =>
              /\ cmd.result.none
              /\ cmd.sent = <<>>
              /\ cmd.via = "main" => Exited(1)

C12_Witness ==
    /\ DeviceDone
    /\ cmd.via = "main"
    /\ cmd.command = Reboot
    /\ cmd.outcome = "client_error"
    /\ Exited(1)

Quoted(text) == <<34>> \o text \o <<34>>

\* C14 as stated: the published object has the command argument as its
\* `command` field and every item of params, for any params.
C14_CommandAndParams ==
    (script = "bbdevice" /\ cmd.sent # <<>>) =>
        /\ <<"command", Quoted(cmd.command)>> \in cmd.sent[1].payload
        /\ \A item \in cmd.params : <<item[1], dumps_value(item[2])>> \in cmd.sent[1].payload
        /\ cmd.sent[1].topic = <<"catcam", "BootBootsThing", "commands">>

\* C14 amended: the published object has every item of params, and the
\* command argument as its `command` field unless params has a `command`
\* key of its own, whose value then takes its place; the topic is fixed.
C14_ParamsOverrideCommand ==
    (script = "bbdevice" /\ cmd.sent # <<>>) =>
        LET object == cmd.sent[1].payload
        IN  /\ \A item \in cmd.params : <<item[1], dumps_value(item[2])>> \in object
            /\ "command" \notin Keys(cmd.params) => <<"command", Quoted(cmd.command)>> \in object
            /\ Keys(object) = {"command"} \cup Keys(cmd.params)
            /\ Cardinality(object) = Cardinality(Keys(object))
            /\ cmd.sent[1].topic = <<"catcam", "BootBootsThing", "commands">>
            /\ published # <<>> /\ published[Len(published)] = cmd.sent[1]

C14_Witness ==
    /\ script = "bbdevice"
    /\ cmd.sent # <<>>
    /\ cmd.command = Ping
    /\ <<"command", Quoted(Reboot)>> \in cmd.sent[1].payload
    /\ <<"force", <<49>>>> \in cmd.sent[1].payload

\* the keys a scan of the bucket as it stood at the start has to look at
ImageKeys(bucket) ==
    {k \in DOMAIN bucket :
        /\ k[1] = "catcam-training/"
        /\ \E ext \in { <<46, 106, 112, 103>>, <<46, 106, 112, 101, 103>>, <<46, 112, 110, 103>> } :
              endswith(lower(k[2]), ext)}

\* both markers are there and the decode succeeds
CompleteJpeg(data) ==
    /\ Len(data) >= 4
    /\ data[1] = 255 /\ data[2] = 216
    /\ data[Len(data) - 1] = 255 /\ data[Len(data)] = 217
    /\ decodes(data)

\* C15: in dry-run mode nothing is deleted at any point of the scan: the
\* bucket is as it was at the start, no delete is issued, and every corrupt
\* object found is listed; a completed scan has listed all of them.
C15_DryRunDeletesNothing ==
    (script = "scrub" /\ pc # "idle" /\ args.dry_run) =>
        /\ images = pre.images
        /\ ~Logged("delete") /\ ~Logged("delete_failed")
        /\ scan.removed = {} /\ scan.deleted = 0
        /\ scan.corrupt = Cardinality(scan.listed)
        /\ Exited(0) => scan.listed = {k \in ImageKeys(pre.images) : ~CompleteJpeg(pre.images[k])}

C15_Witness ==
    /\ script = "scrub" /\ Exited(0) /\ args.dry_run
    /\ Cardinality(scan.listed) >= 2
    /\ images = pre.images

\* C16: a scan that deletes and runs to completion has deleted exactly the
\* keys under the prefix with an image extension, in any case, whose bytes
\* fail the validator; keys with other extensions or other prefixes are
\* neither fetched nor deleted; the deleted count equals the corrupt count.
C16_DeletesExactlyCorrupt ==
    (script = "scrub" /\ Exited(0) /\ ~args.dry_run) =>
        /\ scan.removed = {k \in ImageKeys(pre.images) : ~CompleteJpeg(pre.images[k])}
        /\ DOMAIN images = DOMAIN pre.images \ scan.removed
        /\ \A k \in DOMAIN images : images[k] = pre.images[k]
        /\ scan.fetched = ImageKeys(pre.images)
        /\ scan.deleted = scan.corrupt
        /\ scan.deleted = Cardinality(scan.removed)
        /\ scan.total = Cardinality(ImageKeys(pre.images))

C16_Witness ==
    /\ script = "scrub" /\ Exited(0) /\ ~args.dry_run
    /\ KeyB \in scan.removed
    /\ KeyC \in scan.removed
    /\ KeyA \in DOMAIN images
    /\ KeyD \in DOMAIN images /\ KeyD \notin scan.fetched

\* C17: the validator answers False without a decode for bytes shorter
\* than 4, not starting with FF D8 or not ending with FF D9, and answers
\* True exactly when both markers are there and the decode succeeds.
C17_MarkersBeforeDecode ==
    \A c \in scan.checks :
        LET d == c.data
            start == Len(d) >= 2 /\ d[1] = 255 /\ d[2] = 216
            end == Len(d) >= 2 /\ d[Len(d) - 1] = 255 /\ d[Len(d)] = 217
        IN  /\ (Len(d) < 4 \/ ~start \/ ~end) => (~c.valid /\ ~c.decoded)
            /\ c.valid <=> (Len(d) >= 4 /\ start /\ end /\ decodes(d))
            /\ c.decoded <=> (Len(d) >= 4 /\ start /\ end)

C17_Witness ==
    /\ [data |-> CutShortJpeg, valid |-> FALSE, decoded |-> FALSE] \in scan.checks
    /\ [data |-> DamagedJpeg, valid |-> FALSE, decoded |-> TRUE] \in scan.checks
    /\ [data |-> GoodPng, valid |-> FALSE, decoded |-> FALSE] \in scan.checks

\* both invocations wrote the manifest, and each had read it before the
\* other wrote
BothReadFirst ==
    /\ other.put
    /\ Logged("manifest_put")
    /\ ~other.main_put_at_get
    /\ other.main_read_at_put

HasEntry(versions, entry) == \E i \in 1..Len(versions) : versions[i] = entry

HasVersion(versions, text) == \E i \in 1..Len(versions) : versions[i].version = text

\* C18: when two invocations write entries for different versions and both
\* read the manifest before either wrote it, the stored manifest has the
\* later writer's entry and not the earlier writer's; unless the manifest
\* held that version before, the earlier writer's version is missing.
C18_LastWriteWins ==
    (BothReadFirst /\ version # other.version) =>
        LET mainEntry == [version |-> version, timestamp |-> runs,
                          firmware_path |-> <<"BootBoots", version, "firmware.bin">>]
            otherEntry == [version |-> other.version, timestamp |-> OtherNow,
                           firmware_path |-> <<"BootBoots", other.version, "firmware.bin">>]
            later == IF other.main_put_at_put THEN otherEntry ELSE mainEntry
            earlier == IF other.main_put_at_put THEN mainEntry ELSE otherEntry
        IN  /\ manifest.present
            /\ HasEntry(manifest.versions, later)
            /\ ~HasEntry(manifest.versions, earlier)
            /\ ~HasVersion(pre.manifest.versions, earlier.version) =>
                  ~HasVersion(manifest.versions, earlier.version)

C18_Witness ==
    /\ BothReadFirst
    /\ version # other.version
    /\ other.main_put_at_put
    /\ <<"BootBoots", version, "firmware.bin">> \in s3
    /\ <<"BootBoots", other.version, "firmware.bin">> \in s3
    /\ HasVersion(manifest.versions, other.version)
    /\ ~HasVersion(manifest.versions, version)

\* C19: a run that has written a manifest entry for its version uploaded
\* the binary of that version before, under BootBoots/{version}/firmware.bin,
\* which is the entry's firmware_path; the manifest is the object
\* BootBoots/manifest.json; a run without a successful upload leaves the
\* manifest as it was.
C19_ManifestAfterUpload ==
    /\ (script = "cpp" /\ Logged("manifest_put")) =>
          /\ Logged("upload")
          /\ Position("upload") < Position("manifest_put")
          /\ <<"BootBoots", version, "firmware.bin">> \in s3
          /\ manifest.present
          /\ manifest.key = <<"BootBoots", "manifest.json">>
          /\ \E i \in 1..Len(manifest.versions) :
                /\ manifest.versions[i].version = version
                /\ manifest.versions[i].firmware_path = <<"BootBoots", version, "firmware.bin">>
          /\ \A i \in 1..Len(manifest.versions) :
                manifest.versions[i].version = version =>
                    manifest.versions[i].firmware_path \in s3
    /\ (script \in {"emb", "cpp"} /\ pc # "idle" /\ ~Logged("upload")) =>
          /\ manifest = pre.manifest
          /\ ~Logged("manifest_put")

C19_Witness ==
    /\ script = "cpp"
    /\ Logged("manifest_put")
    /\ Len(manifest.versions) >= 2
    /\ \E i \in 1..Len(manifest.versions) :
          /\ manifest.versions[i].version = version
          /\ manifest.versions[i].firmware_path \in s3

\* the events that record an attempt of each external operation
Attempts ==
    { {"upload", "upload_client_error", "upload_error"},
      {"manifest_put", "manifest_failed"},
      {"publish", "publish_failed"},
      {"commit", "commit_failed"},
      {"push", "push_failed"},
      {"tag", "tag_create_failed"},
      {"tag_push", "tag_push_failed"} }

AttemptsOf(op) == Cardinality({i \in 1..Len(log) : log[i] \in op})

\* C20: in a run each external operation is attempted at most once, so
\* none is issued again after it failed; a run adds at most one binary and
\* at most one message.
C20_NoRetry ==
    /\ \A op \in Attempts : AttemptsOf(op) <= 1
    /\ Cardinality(s3 \ pre.s3) <= 1
    /\ Len(published) <= Len(pre.published) + 1

C20_Witness ==
    /\ script = "bbdevice"
    /\ Exited(1)
    /\ AttemptsOf({"publish", "publish_failed"}) = 1
    /\ Logged("publish_failed")
    /\ published = pre.published

\* C21: after a run whose download_model downloaded and returned, a run
\* for the same job without --refresh uses the cached copy and downloads
\* nothing, for every archive layout.
C21_CachedAfterDownload ==
    (/\ script = "infer"
     /\ infer.called
     /\ pre.last.infer.downloaded /\ pre.last.infer.returned
     /\ infer.job = pre.last.infer.job
     /\ ~args.refresh) =>
        /\ infer.cached
        /\ ~infer.downloaded
        /\ ~Logged("download") /\ ~Logged("download_failed")

\* what a build-only run must leave alone: the bucket, the manifest and
\* the tags
BuildOnlyFrame ==
    /\ s3 = pre.s3
    /\ manifest = pre.manifest
    /\ git.tags = pre.git.tags
    /\ ~Logged("upload") /\ ~Logged("manifest_put") /\ ~Logged("tag") /\ ~Logged("tag_push")
    /\ \A f \in UploadFailures \cup TagFailures : ~Logged(f)

\* C22 as stated: a --build-only run uploads nothing, writes no manifest,
\* creates no tag, and exits with code 0 exactly when the build succeeded.
C22_BuildOnlyExitCode ==
    (script \in {"emb", "cpp"} /\ pc # "idle" /\ args.build_only) =>
        /\ BuildOnlyFrame
        /\ pc = "exited" => (exitCode = 0 <=> Logged("build_ok"))

\* C22 amended: a --build-only run uploads nothing, writes no manifest and
\* creates no tag; it exits with code 1 when the build failed or when the
\* built firmware.bin is not found afterwards, and with code 0 when the
\* build succeeded and the file is there, or when the operator declined at
\* the pre-flight prompt before any build.
C22_BuildOnly ==
    (script \in {"emb", "cpp"} /\ pc # "idle" /\ args.build_only) =>
        /\ BuildOnlyFrame
        /\ Logged("build_failed") => Exited(1)
        /\ Logged("firmware_not_found") => (Exited(1) /\ Logged("build_ok"))
        /\ (pc = "exited" /\ Logged("build_ok") /\ ~Logged("firmware_not_found")) => exitCode = 0
        /\ Exited(0) => (Logged("build_ok") \/ (Logged("aborted") /\ ~Logged("bump")))

C22_Witness ==
    /\ script = "emb"
    /\ pc = "exited"
    /\ args.build_only
    /\ Logged("build_ok")
    /\ Logged("firmware_not_found")
    /\ exitCode = 1
    /\ s3 = {}

\* C23: a --no-bump run does not write version.h and makes no version-bump
\* commit; the key it uploads to, the tag it creates and the manifest entry
\* it writes carry the version version.h held when the run started.
C23_NoBump ==
    (script \in {"emb", "cpp"} /\ pc # "idle" /\ args.no_bump) =>
        LET current == Held(pre.versionFile)
        IN  /\ versionFile = pre.versionFile
            /\ git.commits = pre.git.commits
            /\ ~Logged("bump") /\ ~Logged("commit") /\ ~Logged("push")
            /\ Logged("upload") => s3 = pre.s3 \cup {<<"BootBoots", current, "firmware.bin">>}
            /\ ~Logged("upload") => s3 = pre.s3
            /\ Logged("tag") => git.tags = pre.git.tags \cup {<<"device", current>>}
            /\ ~Logged("tag") => git.tags = pre.git.tags
            /\ Logged("manifest_put") =>
                  \E i \in 1..Len(manifest.versions) : manifest.versions[i].version = current

C23_Witness ==
    /\ script = "emb"
    /\ Exited(0)
    /\ args.no_bump
    /\ tree_was_clean
    /\ HoldsVersion(pre.versionFile)
    /\ Logged("upload") /\ Logged("tag_push")
    /\ <<"device", pre.versionFile.fw>> \in git.tags
    /\ <<"BootBoots", pre.versionFile.fw, "firmware.bin">> \in s3

\* C24: after a successful create_version_manifest each entry's version,
\* compared number by number, is at least that of the entry after it.
C24_ManifestNewestFirst ==
    (script = "cpp" /\ Logged("manifest_put")) =>
        \A i \in 1..(Len(manifest.versions) - 1) :
            ~ComponentsLess(Components(manifest.versions[i].version),
                            Components(manifest.versions[i + 1].version))

\* C25: a scan deletes no object that holds a complete image the decoder
\* accepts, a PNG under a .png key included.
C25_OnlyCorruptDeleted ==
    script = "scrub" =>
        /\ \A k \in scan.removed : ~decodes(pre.images[k])
        /\ \A k \in DOMAIN pre.images : decodes(pre.images[k]) => k \in DOMAIN images

\* C26: a run the operator continued with uncommitted changes makes no
\* version-bump commit and creates no tag.
C26_TagOnlyOnCleanTree ==
    (script = "emb" /\ answer.asked /\ ~tree_was_clean) =>
        /\ ~Logged("commit") /\ git.commits = pre.git.commits
        /\ ~Logged("tag") /\ git.tags = pre.git.tags

\* C27: a run that has written the manifest for its version has kept every
\* entry of the manifest stored before whose version is another one.
C27_OtherVersionsKept ==
    (script = "cpp" /\ Logged("manifest_put")) =>
        \A i \in 1..Len(pre.manifest.versions) :
            pre.manifest.versions[i].version # version =>
                HasEntry(manifest.versions, pre.manifest.versions[i])

\* the run ended with code 1 after a bump, on a failed build or upload
FailedAfterBump(events, code) ==
    /\ code = 1
    /\ "bump" \in events
    /\ \E f \in {"build_failed"} \cup UploadFailures : f \in events

\* C28: a run that bumped the version and then failed in the build or the
\* upload exits with code 1 leaving the bumped version in version.h, with
\* no binary of that version uploaded; the next run that bumps produces a
\* version above that one, which is still not in the bucket.
C28_BumpNotRolledBack ==
    script \in {"emb", "cpp"} =>
        /\ (pc = "exited" /\ FailedAfterBump(Range(log), exitCode)) =>
              /\ HoldsVersion(versionFile)
              /\ versionFile.fw = version
              /\ versionFile # pre.versionFile
              /\ Components(version) = Bumped(Components(Held(pre.versionFile)), args.version_type)
              /\ s3 = pre.s3
        /\ (FailedAfterBump(pre.last.events, pre.last.exitCode) /\ Logged("bump")) =>
              /\ HoldsVersion(pre.versionFile)
              /\ ComponentsLess(Components(pre.versionFile.fw), Components(version))
              /\ <<"BootBoots", pre.versionFile.fw, "firmware.bin">> \notin s3

C28_Witness ==
    /\ script = "cpp"
    /\ FailedAfterBump(pre.last.events, pre.last.exitCode)
    /\ Logged("bump") /\ Logged("upload")
    /\ Exited(0)
    /\ <<"BootBoots", version, "firmware.bin">> \in s3
    /\ <<"BootBoots", pre.versionFile.fw, "firmware.bin">> \notin s3

\* C29: once a run has bumped, reading version.h back gives exactly the
\* version the bump returned, and the three VERSION_* constants are the
\* three components of FIRMWARE_VERSION; a run that reads a version.h that
\* is missing or has no matching FIRMWARE_VERSION line uses 1.0.0.
C29_VersionRoundTrip ==
    script \in {"emb", "cpp"} =>
        /\ Logged("bump") =>
              /\ get_current_version(versionFile) = version
              /\ versionFile.exists
              /\ split(versionFile.fw) = <<versionFile.major, versionFile.minor, versionFile.patch>>
              /\ <<int(versionFile.major), int(versionFile.minor), int(versionFile.patch)>>
                    = Components(version)
        /\ (version # <<>> /\ ~Logged("bump") /\ ~HoldsVersion(pre.versionFile)) =>
              version = <<49, 46, 48, 46, 48>>
        /\ (Logged("bump") /\ ~HoldsVersion(pre.versionFile)) =>
              Components(version) = Bumped(<<1, 0, 0>>, args.version_type)

C29_Witness ==
    /\ script = "emb"
    /\ Logged("bump")
    /\ pre.versionFile.fw = <<48, 49, 46, 50, 46, 57>>
    /\ versionFile.fw = <<49, 46, 50, 46, 49, 48>>
    /\ versionFile.patch = <<49, 48>>
    /\ get_current_version(versionFile) = version

\* C30: a run whose version already had its device/{version} tag when the
\* run started issues no tag creation and no tag push, reports that the tag
\* exists when it reaches the tag step, and leaves the tags as they were;
\* no run ever removes a tag.
C30_ExistingTagLeftAlone ==
    script = "emb" =>
        /\ pre.git.tags \subseteq git.tags
        /\ (version # <<>> /\ <<"device", version>> \in pre.git.tags) =>
              /\ git.tags = pre.git.tags
              /\ \A e \in {"tag", "tag_create_failed", "tag_push", "tag_push_failed"} : ~Logged(e)
              /\ (pc = "exited" /\ Logged("upload")) => (Logged("tag_exists") /\ exitCode = 0)

C30_Witness ==
    /\ script = "emb"
    /\ Exited(0)
    /\ <<"device", version>> \in pre.git.tags
    /\ Logged("upload")
    /\ Logged("tag_exists")
    /\ git.tags = pre.git.tags

====
